---------------------------- MODULE Spec2Model ----------------------------
(***************************************************************************)
(* Model of src/src/processing.cpp: the text-mask pipeline textBinary and   *)
(* the pure functions it is built from (intensity, hasTextRatio,            *)
(* isConnected, keep, countChildren).                                       *)
(*                                                                          *)
(* Conventions.  A Point is <<x, y>>.  A contour is a non-empty sequence of *)
(* Points; contour[1] is the C++ contour[0].  contours and hierarchy are    *)
(* functions over 0..n-1, so that the C++ indices (and the role index 0     *)
(* plays in the "> 0" tests) are kept.  A cv::Vec4i h is a 4-tuple; the C++ *)
(* h[0], h[1], h[2], h[3] are h[1], h[2], h[3], h[4] here (next, previous,  *)
(* first child, parent).  A double is kept as an exact fraction <<num,      *)
(* den>> with den > 0; all the divisions of the code are by small positive  *)
(* integers, for which the comparison of the rounded doubles agrees with    *)
(* the comparison of the exact fractions.                                   *)
(***************************************************************************)
EXTENDS Integers, Sequences, FiniteSets, TLC

VARIABLES
  src,          \* textBinary's argument: the source image
  contours,     \* output of cv::findContours: 0..n-1 -> contour
  hierarchy,    \* output of cv::findContours: 0..n-1 -> Vec4i
  i,            \* index of the selection loop (line 121)
  parent,       \* local of the selection loop (line 125)
  numChildren,  \* local of the selection loop (line 130)
  keptRegions,  \* sequence of [contour, box] (line 120)
  keptIdx,      \* history: the contour index of each entry of keptRegions
  counts,       \* history: contour index -> the numChildren computed for it
  filter,       \* the output mask (line 143)
  r,            \* position of the range-for over keptRegions (line 145)
  fgThresh,     \* <<num, den>> (line 150)
  bgs,          \* the twelve samples (line 158), 0..11 -> uchar
  bgThresh,     \* <<num, den>> (line 157)
  fg, bg,       \* the two colours (line 187)
  x, y,         \* fill loop counters (lines 198, 199)
  oob,          \* history: a mask write outside the mask has happened
  dst,          \* textBinary's result
  pc,           \* position in textBinary
  arg, ret      \* argument and result of a direct call of keep

vars == <<src, contours, hierarchy, i, parent, numChildren, keptRegions,
          keptIdx, counts, filter, r, fgThresh, bgs, bgThresh, fg, bg, x, y,
          oob, dst, pc, arg, ret>>

---------------------------------------------------------------------------
(* Bounds and program constants *)

MaxContours == 3

Pad == 50

White == 255

MinBoxArea == 15

NumSamples == 12

---------------------------------------------------------------------------
(* Small helpers *)

Abs(a) == IF a < 0 THEN -a ELSE a

SetMin(S) == CHOOSE a \in S : \A b \in S : a <= b

SetMax(S) == CHOOSE a \in S : \A b \in S : a >= b

\* p >= q and p > q for fractions <<num, den>>, den > 0
FracGE(p, q) == p[1] * q[2] >= q[1] * p[2]

FracGT(p, q) == p[1] * q[2] > q[1] * p[2]

---------------------------------------------------------------------------
(* Images.  A cv::Mat of 3-channel pixels is kept as a description of its   *)
(* content: a paper colour, an ink colour and the rectangles painted in     *)
(* ink, surrounded by a border of constant 0 (cv::copyMakeBorder with       *)
(* BORDER_CONSTANT and the default value).  Pixels are <<B, G, R>>.         *)

InRect(px, py, rc) ==
  /\ rc.x <= px /\ px < rc.x + rc.width
  /\ rc.y <= py /\ py < rc.y + rc.height

Pixel(mat, px, py) ==
  LET sx == px - mat.border
      sy == py - mat.border
  IN IF /\ 0 <= sx /\ sx < mat.cols - 2 * mat.border
        /\ 0 <= sy /\ sy < mat.rows - 2 * mat.border
     THEN IF \E g \in mat.glyphs : InRect(sx, sy, g) THEN mat.ink ELSE mat.paper
     ELSE <<0, 0, 0>>

copyMakeBorder(mat, margin) ==
  [mat EXCEPT !.cols = mat.cols + 2 * margin,
              !.rows = mat.rows + 2 * margin,
              !.border = mat.border + margin]

\* uchar intensity(img, loc): 0 outside the image, else the weighted sum
\* truncated to uchar.  (30R + 59G + 11B) \div 100 is the exact value of the
\* truncation; the double sum agrees with it on every colour of Palette.
intensity(mat, loc) ==
  IF loc[1] < 0 \/ loc[1] >= mat.cols \/ loc[2] < 0 \/ loc[2] >= mat.rows
  THEN 0
  ELSE LET pix == Pixel(mat, loc[1], loc[2])
       IN (30 * pix[3] + 59 * pix[2] + 11 * pix[1]) \div 100

---------------------------------------------------------------------------
(* Region classifier *)

boundingRect(contour) ==
  LET xs == {contour[k][1] : k \in DOMAIN contour}
      ys == {contour[k][2] : k \in DOMAIN contour}
  IN IF contour = <<>>
     THEN [x |-> 0, y |-> 0, width |-> 0, height |-> 0]
     ELSE [x |-> SetMin(xs), y |-> SetMin(ys),
           width |-> SetMax(xs) - SetMin(xs) + 1,
           height |-> SetMax(ys) - SetMin(ys) + 1]

\* hasTextRatio with the lower area bound made exclusive
hasTextRatio_StrictArea(contour, imgSize) ==
  LET box == boundingRect(contour)
      boxArea == box.width * box.height
      imgArea == imgSize[1] * imgSize[2]
  IN IF 10 * box.width < box.height \/ box.width > 10 * box.height
     THEN FALSE
     ELSE boxArea > MinBoxArea /\ 5 * boxArea <= imgArea

\* hasTextRatio without the lower area bound
hasTextRatio_NoMinArea(contour, imgSize) ==
  LET box == boundingRect(contour)
      boxArea == box.width * box.height
      imgArea == imgSize[1] * imgSize[2]
  IN IF 10 * box.width < box.height \/ box.width > 10 * box.height
     THEN FALSE
     ELSE 5 * boxArea <= imgArea

\* ratio = double(width) / height; ratio < 0.1 is 10 * width < height and
\* ratio > 10 is width > 10 * height (the quotient of two ints that is
\* exactly 1/10 rounds to the double 0.1 itself).  boxArea <= imgArea / 5
\* is 5 * boxArea <= imgArea.
hasTextRatio(contour, imgSize) ==
  LET box == boundingRect(contour)
      boxArea == box.width * box.height
      imgArea == imgSize[1] * imgSize[2]
  IN IF 10 * box.width < box.height \/ box.width > 10 * box.height
     THEN FALSE
     ELSE boxArea >= MinBoxArea /\ 5 * boxArea <= imgArea

isConnected(contour) ==
  LET first == contour[1]
      last == contour[Len(contour)]
  IN Abs(first[1] - last[1]) <= 1 /\ Abs(first[2] - last[2]) <= 1

keep(contour, imgSize) ==
  hasTextRatio(contour, imgSize) /\ isConnected(contour)

---------------------------------------------------------------------------
(* Descendant counter *)

RECURSIVE countChildren(_, _, _, _)
RECURSIVE SiblingScan(_, _, _, _, _)

\* One of the two for loops of countChildren (lines 86-91 and 92-97):
\*   for (s = start; s > 0; s = hier[s][link]) { ... }
\* link is the Vec4i position the loop steps through (1-based here).
SiblingScan(contoursArg, hier, start, link, imgSize) ==
  IF start > 0
  THEN (IF keep(contoursArg[start], imgSize) THEN 1 ELSE 0)
       + countChildren(contoursArg, hier, start, imgSize)
       + SiblingScan(contoursArg, hier, hier[start][link], link, imgSize)
  ELSE 0

\* Both loops start at hier[child][0] and both step through hier[.][0].
countChildren(contoursArg, hier, index, imgSize) ==
  IF hier[index][3] < 0
  THEN 0
  ELSE LET child == hier[index][3]
       IN (IF keep(contoursArg[child], imgSize) THEN 1 ELSE 0)
          + countChildren(contoursArg, hier, child, imgSize)
          + SiblingScan(contoursArg, hier, hier[child][1], 1, imgSize)
          + SiblingScan(contoursArg, hier, hier[child][1], 1, imgSize)

---------------------------------------------------------------------------
(* Foreground / background estimation and polarity *)

RECURSIVE SumIntensity(_, _, _)
SumIntensity(mat, contour, k) ==
  IF k = 0 THEN 0
  ELSE intensity(mat, contour[k]) + SumIntensity(mat, contour, k - 1)

\* lines 150-154: the mean of intensity(src, point) over the contour
FgThresh(mat, contour) == <<SumIntensity(mat, contour, Len(contour)), Len(contour)>>

\* lines 158-175: the twelve samples around the box, in the order written
BgSamples(mat, box) ==
  LET l == box.x
      t == box.y
      w == box.width
      h == box.height
      pts == <<
        <<l - 1, t - 1>>, <<l - 1, t>>, <<l, t - 1>>,
        <<l + w + 1, t - 1>>, <<l + w + 1, t>>, <<l + w, t - 1>>,
        <<l - 1, t + h + 1>>, <<l - 1, t + h>>, <<l, t + h + 1>>,
        <<l + w + 1, t + h + 1>>, <<l + w, t + h + 1>>, <<l + w + 1, t + h>> >>
  IN [k \in 0 .. NumSamples - 1 |-> intensity(mat, pts[k + 1])]

\* std::nth_element(v.begin(), v.begin() + n, v.end()) followed by the read
\* of v[n]: the element that a full sort would put at position n.
NthElement(v, n) ==
  CHOOSE a \in {v[k] : k \in DOMAIN v} :
    /\ Cardinality({k \in DOMAIN v : v[k] < a}) <= n
    /\ Cardinality({k \in DOMAIN v : v[k] <= a}) > n

\* lines 177-184
BgThresh(v) ==
  LET len == Cardinality(DOMAIN v)
  IN IF len % 2 = 0
     THEN <<NthElement(v, len \div 2) + NthElement(v, len \div 2 + 1), 2>>
     ELSE <<NthElement(v, len \div 2), 1>>

\* Polarity with the comparison made strict
Polarity_Strict(f, b) ==
  IF FracGT(f, b) THEN <<White, 0>> ELSE <<0, White>>

\* lines 187-195: <<fg, bg>>
Polarity(f, b) ==
  IF FracGE(f, b) THEN <<White, 0>> ELSE <<0, White>>

\* line 143: cv::Mat filter(size, CV_8U, cv::Scalar(255)).  The mask is kept
\* as its size, the value it was filled with and the pixels written since.
NewMask(size, value) == [size |-> size, fill |-> value, at |-> <<>>]

MaskAt(m, p) == IF p \in DOMAIN m.at THEN m.at[p] ELSE m.fill

\* A write that leaves a pixel written before as it is
MaskPut_FirstWins(m, p, v) ==
  IF p \in DOMAIN m.at THEN m
  ELSE [m EXCEPT !.at = [q \in (DOMAIN m.at) \cup {p} |-> IF q = p THEN v ELSE m.at[q]]]

MaskPut(m, p, v) ==
  [m EXCEPT !.at = [q \in (DOMAIN m.at) \cup {p} |-> IF q = p THEN v ELSE m.at[q]]]

NoMask == NewMask(<<0, 0>>, 0)

InMask(m, p) ==
  /\ 0 <= p[1] /\ p[1] < m.size[1]
  /\ 0 <= p[2] /\ p[2] < m.size[2]

---------------------------------------------------------------------------
(* Inputs.  textBinary receives an image; cv::findContours (a primitive of  *)
(* the library) hands back contours whose points lie inside the padded      *)
(* edge image, numbered in pre-order of the nesting forest with the         *)
(* children of a node linked in ascending index order.                      *)

Rect(px, py, w, h) == [x |-> px, y |-> py, width |-> w, height |-> h]

Grey(v) == <<v, v, v>>

Palette == {Grey(0), Grey(50), Grey(200), <<200, 180, 40>>}

Images ==
  { [cols |-> 60, rows |-> 60, border |-> 0,
     paper |-> Grey(200), ink |-> Grey(50),
     glyphs |-> {Rect(1, 1, 5, 3), Rect(51, 51, 5, 3)}],
    [cols |-> 60, rows |-> 60, border |-> 0,
     paper |-> Grey(50), ink |-> Grey(200),
     glyphs |-> {Rect(1, 1, 5, 3), Rect(51, 51, 5, 3)}],
    [cols |-> 64, rows |-> 58, border |-> 0,
     paper |-> <<200, 180, 40>>, ink |-> Grey(0), glyphs |-> {}] }

\* A closed trace along the border of a w x h box at (px, py)
Loop(px, py, w, h) ==
  << <<px, py>>, <<px + w - 1, py>>, <<px + w - 1, py + h - 1>>,
     <<px, py + h - 1>>, <<px, py + 1>> >>

ContourLib ==
  { Loop(50, 50, 7, 8),      \* an outer stroke around the two glyphs
    Loop(51, 51, 5, 3),      \* a glyph, box area exactly 15
    Loop(53, 52, 3, 5),      \* a glyph overlapping the first
    << <<52, 52>> >>,        \* a single point
    Loop(50, 50, 56, 5),     \* a long bar, width / height > 10
    << <<60, 60>>, <<63, 60>>, <<63, 64>> >> }   \* an open stroke

RECURSIVE AncSelf(_, _)
AncSelf(par, k) == IF k < 0 THEN {} ELSE {k} \cup AncSelf(par, par[k])

IsPreorder(par, n) ==
  \A k \in 0 .. n - 1 :
    IF k = 0 THEN par[k] = -1
    ELSE par[k] = -1 \/ par[k] \in AncSelf(par, k - 1)

ParentVectors(n) == {par \in [0 .. n - 1 -> -1 .. n - 2] : IsPreorder(par, n)}

HierOf(par, n) ==
  [k \in 0 .. n - 1 |->
    LET nexts == {j \in 0 .. n - 1 : j > k /\ par[j] = par[k]}
        prevs == {j \in 0 .. n - 1 : j < k /\ par[j] = par[k]}
        kids  == {j \in 0 .. n - 1 : par[j] = k}
    IN << IF nexts = {} THEN -1 ELSE SetMin(nexts),
          IF prevs = {} THEN -1 ELSE SetMax(prevs),
          IF kids = {} THEN -1 ELSE SetMin(kids),
          par[k] >>]

Hierarchies(n) == {HierOf(par, n) : par \in ParentVectors(n)}

BoxInside(a, b) ==
  /\ b.x <= a.x /\ a.x + a.width <= b.x + b.width
  /\ b.y <= a.y /\ a.y + a.height <= b.y + b.height

\* Every traced contour appears once, and a contour lies inside the
\* contour it is nested in.
FindContours(n) ==
  { io \in [0 .. n - 1 -> ContourLib] \X Hierarchies(n) :
      /\ \A a, b \in 0 .. n - 1 : a # b => io[1][a] # io[1][b]
      /\ \A k \in 0 .. n - 1 :
           io[2][k][4] >= 0 =>
             BoxInside(boundingRect(io[1][k]), boundingRect(io[1][io[2][k][4]])) }

---------------------------------------------------------------------------
(* textBinary *)

img == copyMakeBorder(src, Pad)

edgesSize == <<img.cols, img.rows>>

NumContours == Cardinality(DOMAIN contours)

NoFrac == <<0, 1>>

NoBgs == [k \in 0 .. NumSamples - 1 |-> 0]

Init ==
  /\ src \in Images
  /\ \E n \in 0 .. MaxContours :
       \E io \in FindContours(n) :
         /\ contours = io[1]
         /\ hierarchy = io[2]
  /\ i = 0
  /\ parent = -1
  /\ numChildren = 0
  /\ keptRegions = <<>>
  /\ keptIdx = <<>>
  /\ counts = <<>>
  /\ filter = NoMask
  /\ r = 0
  /\ fgThresh = NoFrac
  /\ bgs = NoBgs
  /\ bgThresh = NoFrac
  /\ fg = 0
  /\ bg = 0
  /\ x = 0
  /\ y = 0
  /\ oob = FALSE
  /\ dst = NoMask
  /\ pc = "loop"
  /\ arg = <<>>
  /\ ret = FALSE

\* line 131-133: the test that decides whether contour i is pushed
Selected(k, par, num) ==
  /\ keep(contours[k], edgesSize)
  /\ ~(par > 0 /\ num <= 2)
  /\ num <= 2

\* lines 121-126: loop test, bound, and the initialisation of the parent walk
LoopHead ==
  /\ pc = "loop"
  /\ i < NumContours
  /\ parent' = hierarchy[i][4]
  /\ pc' = "walk"
  /\ UNCHANGED <<src, contours, hierarchy, i, numChildren, keptRegions,
                 keptIdx, counts, filter, r, fgThresh, bgs, bgThresh, fg, bg,
                 x, y, oob, dst, arg, ret>>

\* lines 126-128: one iteration of the (empty-bodied) for loop
WalkParent ==
  /\ pc = "walk"
  /\ parent > 0 /\ keep(contours[parent], edgesSize)
  /\ parent' = hierarchy[parent][4]
  /\ UNCHANGED <<src, contours, hierarchy, i, numChildren, keptRegions,
                 keptIdx, counts, filter, r, fgThresh, bgs, bgThresh, fg, bg,
                 x, y, oob, dst, pc, arg, ret>>

\* lines 130-140, and the i++ of line 121
Classify ==
  /\ pc = "walk"
  /\ ~(parent > 0 /\ keep(contours[parent], edgesSize))
  /\ LET num == countChildren(contours, hierarchy, i, edgesSize)
     IN /\ numChildren' = num
        /\ counts' = [k \in (DOMAIN counts) \cup {i} |->
                        IF k = i THEN num ELSE counts[k]]
        /\ IF Selected(i, parent, num)
           THEN /\ keptRegions' = Append(keptRegions,
                     [contour |-> contours[i], box |-> boundingRect(contours[i])])
                /\ keptIdx' = Append(keptIdx, i)
           ELSE UNCHANGED <<keptRegions, keptIdx>>
  /\ i' = i + 1
  /\ pc' = "loop"
  /\ UNCHANGED <<src, contours, hierarchy, parent, filter, r, fgThresh, bgs,
                 bgThresh, fg, bg, x, y, oob, dst, arg, ret>>

\* line 143, and the start of the range-for of line 145
MakeFilter ==
  /\ pc = "loop"
  /\ i >= NumContours
  /\ filter' = NewMask(edgesSize, White)
  /\ r' = 0
  /\ pc' = "region"
  /\ UNCHANGED <<src, contours, hierarchy, i, parent, numChildren, keptRegions,
                 keptIdx, counts, fgThresh, bgs, bgThresh, fg, bg, x, y, oob,
                 dst, arg, ret>>

\* lines 146-198: both estimates, the polarity, and the start of the fill
Estimate ==
  /\ pc = "region"
  /\ r < Len(keptRegions)
  /\ LET p == keptRegions[r + 1]
         f == FgThresh(src, p.contour)
         v == BgSamples(src, p.box)
         b == BgThresh(v)
     IN /\ fgThresh' = f
        /\ bgs' = v
        /\ bgThresh' = b
        /\ fg' = Polarity(f, b)[1]
        /\ bg' = Polarity(f, b)[2]
        /\ x' = p.box.x
        /\ y' = p.box.y
  /\ pc' = "fill"
  /\ UNCHANGED <<src, contours, hierarchy, i, parent, numChildren, keptRegions,
                 keptIdx, counts, filter, r, oob, dst, arg, ret>>

curBox == keptRegions[r + 1].box

\* A fill that writes the pixel's luma where it should write the
\* background colour
FillValue_Grey(mat, p, thresh, fgc, bgc) ==
  IF FracGT(<<intensity(mat, p), 1>>, thresh) THEN intensity(mat, p) ELSE fgc

\* lines 202-207: the colour written for pixel p
FillValue(mat, p, thresh, fgc, bgc) ==
  IF FracGT(<<intensity(mat, p), 1>>, thresh) THEN bgc ELSE fgc

\* line 200: the test of the fill loop, as written (the last conjunct is
\* the int img.rows used as a condition)
FillTest(px, py) ==
  px >= 0 /\ px < img.cols /\ py >= 0 /\ img.rows # 0

\* lines 199-209: one iteration of the inner loop.  A write outside the
\* mask is undefined: the run either stops there or goes on with the mask
\* as it was.
FillPixel ==
  /\ pc = "fill"
  /\ x < curBox.x + curBox.width
  /\ y < curBox.y + curBox.height
  /\ LET p == <<x, y>>
         v == FillValue(img, p, fgThresh, fg, bg)
     IN IF FillTest(x, y)
        THEN IF InMask(filter, p)
             THEN /\ filter' = MaskPut(filter, p, v)
                  /\ pc' = "fill"
                  /\ oob' = oob
             ELSE /\ filter' = filter
                  /\ pc' \in {"fill", "crashed"}
                  /\ oob' = TRUE
        ELSE /\ filter' = filter
             /\ pc' = "fill"
             /\ oob' = oob
  /\ y' = y + 1
  /\ UNCHANGED <<src, contours, hierarchy, i, parent, numChildren, keptRegions,
                 keptIdx, counts, r, fgThresh, bgs, bgThresh, fg, bg, x, dst,
                 arg, ret>>

\* lines 198-199: end of a column, x++ and the restart of the inner loop
NextColumn ==
  /\ pc = "fill"
  /\ x < curBox.x + curBox.width
  /\ y >= curBox.y + curBox.height
  /\ x' = x + 1
  /\ y' = curBox.y
  /\ UNCHANGED <<src, contours, hierarchy, i, parent, numChildren, keptRegions,
                 keptIdx, counts, filter, r, fgThresh, bgs, bgThresh, fg, bg,
                 oob, dst, pc, arg, ret>>

\* line 198 / 145: end of the outer fill loop, next kept region
RegionDone ==
  /\ pc = "fill"
  /\ x >= curBox.x + curBox.width
  /\ r' = r + 1
  /\ pc' = "region"
  /\ UNCHANGED <<src, contours, hierarchy, i, parent, numChildren, keptRegions,
                 keptIdx, counts, filter, fgThresh, bgs, bgThresh, fg, bg, x, y,
                 oob, dst, arg, ret>>

\* line 213
Finish ==
  /\ pc = "region"
  /\ r >= Len(keptRegions)
  /\ dst' = filter
  /\ pc' = "done"
  /\ UNCHANGED <<src, contours, hierarchy, i, parent, numChildren, keptRegions,
                 keptIdx, counts, filter, r, fgThresh, bgs, bgThresh, fg, bg,
                 x, y, oob, arg, ret>>

Next ==
  \/ LoopHead
  \/ WalkParent
  \/ Classify
  \/ MakeFilter
  \/ Estimate
  \/ FillPixel
  \/ NextColumn
  \/ RegionDone
  \/ Finish

Spec == Init /\ [][Next]_vars

---------------------------------------------------------------------------
(* Properties of textBinary *)

Range(f) == {f[k] : k \in DOMAIN f}

ParentOf(k) == hierarchy[k][4]

ParentVector == [k \in DOMAIN hierarchy |-> hierarchy[k][4]]

\* The proper descendants of k: the nodes that have k among their ancestors
Descendants(k) ==
  {d \in DOMAIN hierarchy : k \in AncSelf(ParentVector, ParentOf(d))}

\* The nearest ancestor of k that is classified keep, -1 when the walk
\* along the parent links ends at a root without finding one
RECURSIVE KeptAncestorFrom(_)
KeptAncestorFrom(a) ==
  IF a < 0 THEN -1
  ELSE IF keep(contours[a], edgesSize) THEN a
  ELSE KeptAncestorFrom(ParentOf(a))

NearestKeptAncestor(k) == KeptAncestorFrom(ParentOf(k))

\* C1: a classified contour k is in the kept-region list if and only if
\* keep(k) holds, numChildren(k) <= 2, and k has no nearest kept ancestor
\* whose own numChildren is <= 2.
C1_SelectionPolicy ==
  \A k \in DOMAIN counts :
    LET a == NearestKeptAncestor(k)
    IN (k \in Range(keptIdx)) <=>
         /\ keep(contours[k], edgesSize)
         /\ counts[k] <= 2
         /\ ~(a >= 0 /\ countChildren(contours, hierarchy, a, edgesSize) <= 2)

\* C2: the numChildren computed for a contour is the number of its proper
\* descendants that are classified keep, each counted once.
C2_DescendantCount ==
  \A k \in DOMAIN counts :
    counts[k] = Cardinality({d \in Descendants(k) : keep(contours[d], edgesSize)})

Bijections(S) == {f \in [S -> S] : \A a, b \in S : a # b => f[a] # f[b]}

\* C3: the numChildren computed for a contour equals the count for the same
\* contour in every other output of the contour extractor that has the same
\* contours under the same parent/child relations, whatever the order of
\* the children in their sibling chains (pi carries an index of this
\* hierarchy to the index the same contour has in the other).
C3_OrderIndependent ==
  \A io \in FindContours(NumContours) :
    \A pi \in Bijections(DOMAIN contours) :
      (\A k \in DOMAIN contours :
         /\ io[1][pi[k]] = contours[k]
         /\ io[2][pi[k]][4] = (IF ParentOf(k) < 0 THEN -1 ELSE pi[ParentOf(k)]))
      => \A k \in DOMAIN counts :
           counts[k] = countChildren(io[1], io[2], pi[k], edgesSize)

\* C6: once the colours of a region are decided they are (255, 0) when the
\* foreground estimate is >= the background estimate and (0, 255) when it
\* is smaller; f = 200, b = 50 gives foreground 255 and the swapped
\* estimates give foreground 0.
C6_Polarity ==
  /\ pc = "fill" =>
       IF fgThresh[1] * bgThresh[2] >= bgThresh[1] * fgThresh[2]
       THEN fg = 255 /\ bg = 0
       ELSE fg = 0 /\ bg = 255
  /\ pc = "fill" => Polarity(<<200, 1>>, <<50, 1>>) = <<255, 0>>
  /\ pc = "fill" => Polarity(<<50, 1>>, <<200, 1>>) = <<0, 255>>

\* A region whose two estimates are equal has been given its colours
C6_Witness ==
  /\ pc = "fill"
  /\ fgThresh[1] * bgThresh[2] = bgThresh[1] * fgThresh[2]
  /\ fgThresh[1] > 0
  /\ fg = 255

\* The values the mask holds: the value it was created with and the values
\* written since (MaskAt yields nothing else)
MaskValues(m) == {m.fill} \cup {m.at[p] : p \in DOMAIN m.at}

\* C7: from its creation on, the mask is 100 wider and 100 higher than the
\* source, it is uniformly 255 before the first region is handled, and in
\* every state of the fill loops it holds no value other than 0 and 255.
C7_TwoValuedMask ==
  pc \in {"region", "fill", "done"} =>
    /\ filter.size = <<src.cols + 100, src.rows + 100>>
    /\ (pc = "region" /\ r = 0) => (filter.at = <<>> /\ filter.fill = 255)
    /\ MaskValues(filter) \subseteq {0, 255}
    /\ \A p \in DOMAIN filter.at : InMask(filter, p)

\* In the middle of a fill the mask holds both values
C7_Witness ==
  /\ pc = "fill"
  /\ y > curBox.y
  /\ \E p \in DOMAIN filter.at : MaskAt(filter, p) = 0
  /\ \E p \in DOMAIN filter.at : MaskAt(filter, p) = 255

\* The estimates and colours of the k-th kept region
RegionFg(k) == FgThresh(src, keptRegions[k].contour)

RegionColours(k) ==
  Polarity(RegionFg(k), BgThresh(BgSamples(src, keptRegions[k].box)))

\* What the k-th kept region paints at p
Painted(k, p) ==
  IF intensity(img, p) * RegionFg(k)[2] > RegionFg(k)[1]
  THEN RegionColours(k)[2]
  ELSE RegionColours(k)[1]

Covering(p) ==
  {k \in 1 .. Len(keptRegions) :
     InRect(p[1], p[2], keptRegions[k].box)}

BoxPixels(box) ==
  (box.x .. box.x + box.width - 1) \X (box.y .. box.y + box.height - 1)

KeptPixels == UNION {BoxPixels(keptRegions[k].box) : k \in 1 .. Len(keptRegions)}

\* C8: the kept regions are stored in ascending contour index order, and
\* in the final mask a pixel inside a kept box holds what the kept region
\* of highest index containing it paints, and a pixel inside no kept box
\* holds the initial 255 (no pixel outside the kept boxes was written).
C8_LastWriterWins ==
  pc = "done" =>
    /\ \A k \in 1 .. Len(keptIdx) - 1 : keptIdx[k] < keptIdx[k + 1]
    /\ \A k \in 1 .. Len(keptRegions) :
         keptRegions[k] = [contour |-> contours[keptIdx[k]],
                           box |-> boundingRect(contours[keptIdx[k]])]
    /\ \A k \in 1 .. Len(keptRegions) :
         LET f == RegionFg(k)
             c == RegionColours(k)
         IN \A p \in BoxPixels(keptRegions[k].box) :
              (\A j \in k + 1 .. Len(keptRegions) :
                 ~InRect(p[1], p[2], keptRegions[j].box))
              => MaskAt(dst, p) = (IF intensity(img, p) * f[2] > f[1]
                                   THEN c[2] ELSE c[1])
    /\ DOMAIN dst.at \subseteq KeptPixels
    /\ dst.fill = 255

\* Two kept regions overlap in a pixel they paint differently
C8_Witness ==
  /\ pc = "done"
  /\ \E p \in KeptPixels :
       \E k \in Covering(p) : Painted(k, p) # Painted(SetMax(Covering(p)), p)

\* C9: with no contours, or with single-point contours among the others,
\* the run never faults (no write outside the mask, no stop short of the
\* end, no mean over zero points), a single-point contour
\* never enters the kept-region list, every contour is classified, every
\* kept region is painted, and with no contours the result is uniformly 255.
C9_Degenerate ==
  /\ ~oob /\ pc \in {"loop", "walk", "region", "fill", "done"}
  /\ \A k \in 1 .. Len(keptRegions) : Len(keptRegions[k].contour) > 1
  /\ pc = "fill" => fgThresh[2] > 0
  /\ pc = "done" =>
       /\ DOMAIN counts = DOMAIN contours
       /\ KeptPixels \subseteq DOMAIN dst.at
       /\ NumContours = 0 => dst = NewMask(<<src.cols + 100, src.rows + 100>>, 255)

\* A run with a single-point contour has ended with another contour painted
C9_Witness ==
  /\ pc = "done"
  /\ \E k \in DOMAIN contours : Len(contours[k]) = 1
  /\ Len(keptRegions) >= 1
  /\ dst.at # <<>>

---------------------------------------------------------------------------
(* keep as a function of its own: one call on a contour and an image size   *)

MaxDim == 5

Dims == (1 .. MaxDim) \cup {10, 15, 20, 21, 30, 200}

ImgSizes == {<<15, 5>>, <<37, 2>>, <<10, 10>>, <<160, 160>>, <<400, 300>>}

Deltas == {<<0, 0>>, <<1, 0>>, <<0, 1>>, <<1, 1>>, <<2, 0>>, <<3, 0>>, <<0, 2>>, <<2, 2>>}

\* A trace from a corner of a w x h box to the opposite corner and back to
\* a point at offset d from the start
Stroke(w, h, d) == << <<5, 5>>, <<5 + w - 1, 5 + h - 1>>, <<5 + d[1], 5 + d[2]>> >>

KeepArgs ==
  { [contour |-> Stroke(w, h, d), imgSize |-> sz] :
      w \in Dims, h \in Dims, d \in Deltas, sz \in ImgSizes }

PipelineIdle ==
  /\ src = CHOOSE m \in Images : m.glyphs = {}
  /\ contours = <<>>
  /\ hierarchy = <<>>
  /\ i = 0
  /\ parent = -1
  /\ numChildren = 0
  /\ keptRegions = <<>>
  /\ keptIdx = <<>>
  /\ counts = <<>>
  /\ filter = NoMask
  /\ r = 0
  /\ fgThresh = NoFrac
  /\ bgThresh = NoFrac
  /\ fg = 0
  /\ bg = 0
  /\ x = 0
  /\ y = 0
  /\ oob = FALSE
  /\ dst = NoMask

InitKeep ==
  /\ PipelineIdle
  /\ bgs = NoBgs
  /\ arg \in KeepArgs
  /\ ret = FALSE
  /\ pc = "call"

CallKeep ==
  /\ pc = "call"
  /\ ret' = keep(arg.contour, arg.imgSize)
  /\ pc' = "ret"
  /\ UNCHANGED <<src, contours, hierarchy, i, parent, numChildren, keptRegions,
                 keptIdx, counts, filter, r, fgThresh, bgs, bgThresh, fg, bg,
                 x, y, oob, dst, arg>>

NextKeep == CallKeep

SpecKeep == InitKeep /\ [][NextKeep]_vars

\* C5: keep(contour, size) is true if and only if 0.1 <= w/h <= 10 and
\* 15 <= w*h <= (W*H)/5 and the first and last points differ by at most 1
\* in x and in y, for the w x h bounding box of the contour; so a 1 x 200
\* box, a box of area 10 and end points differing by (3, 0) are rejected,
\* and a 3 x 5 box (area 15) that meets the other conditions is accepted.
C5_Classifier ==
  pc = "ret" =>
    LET xs == {arg.contour[k][1] : k \in DOMAIN arg.contour}
        ys == {arg.contour[k][2] : k \in DOMAIN arg.contour}
        w == SetMax(xs) - SetMin(xs) + 1
        h == SetMax(ys) - SetMin(ys) + 1
        dx == arg.contour[1][1] - arg.contour[Len(arg.contour)][1]
        dy == arg.contour[1][2] - arg.contour[Len(arg.contour)][2]
        closed == dx \in -1 .. 1 /\ dy \in -1 .. 1
        imgArea == arg.imgSize[1] * arg.imgSize[2]
    IN /\ ret <=> /\ h <= 10 * w /\ w <= 10 * h
                  /\ 15 <= w * h /\ 5 * (w * h) <= imgArea
                  /\ closed
       /\ (w = 1 /\ h = 200) => ~ret
       /\ w * h = 10 => ~ret
       /\ (dx = -3 /\ dy = 0) => ~ret
       /\ (w = 3 /\ h = 5 /\ closed /\ imgArea >= 75) => ret
       /\ (dx = 0 /\ dy = 0 /\ w = 5 /\ h = 3 /\ imgArea >= 75) => ret

\* A contour whose box has area exactly 15 has been accepted in an image
\* whose area is exactly five times that
C5_Witness ==
  /\ pc = "ret"
  /\ ret
  /\ boundingRect(arg.contour).width * boundingRect(arg.contour).height = 15
  /\ arg.imgSize[1] * arg.imgSize[2] = 75

---------------------------------------------------------------------------
(* The median of the background samples as a function of its own            *)

SampleValues == {10, 200}

InitMedian ==
  /\ PipelineIdle
  /\ bgs \in [0 .. NumSamples - 1 -> SampleValues]
  /\ arg = <<>>
  /\ ret = FALSE
  /\ pc = "median"

\* lines 176-184
Median ==
  /\ pc = "median"
  /\ bgThresh' = BgThresh(bgs)
  /\ pc' = "ret"
  /\ UNCHANGED <<src, contours, hierarchy, i, parent, numChildren, keptRegions,
                 keptIdx, counts, filter, r, fgThresh, bgs, fg, bg, x, y, oob,
                 dst, arg, ret>>

NextMedian == Median

SpecMedian == InitMedian /\ [][NextMedian]_vars

\* The samples in ascending order (selection sort)
RECURSIVE SortAsc(_)
SortAsc(v) ==
  IF DOMAIN v = {} THEN <<>>
  ELSE LET k == CHOOSE a \in DOMAIN v : \A b \in DOMAIN v : v[a] <= v[b]
           rest == [j \in 0 .. Cardinality(DOMAIN v) - 2 |->
                      IF j < k THEN v[j] ELSE v[j + 1]]
       IN <<v[k]>> \o SortAsc(rest)

\* C4: the background estimate is the median of the twelve samples, the
\* average of the 6th and 7th smallest; six samples of 10 and six of 200
\* give 105.
C4_Median ==
  pc = "ret" =>
    /\ 2 * bgThresh[1] = (SortAsc(bgs)[6] + SortAsc(bgs)[7]) * bgThresh[2]
    /\ (\A k \in 0 .. 5 : bgs[k] = 10 /\ bgs[k + 6] = 200) =>
          bgThresh[1] = 105 * bgThresh[2]

---------------------------------------------------------------------------
(* The compositor handed a region of its own: the state of textBinary       *)
(* right after the estimates of a kept region, for a box that need not lie  *)
(* inside the padded image                                                  *)

FillBoxes ==
  { Rect(51, 51, 5, 3),      \* inside
    Rect(-1, -1, 3, 3),      \* starts at negative coordinates
    Rect(158, 52, 4, 3),     \* past the right edge
    Rect(52, 158, 3, 4) }    \* past the bottom edge

InitFill ==
  /\ src \in {m \in Images : m.cols = 60}
  /\ \E b \in FillBoxes :
       LET c == Loop(b.x, b.y, b.width, b.height)
           f == FgThresh(src, c)
           v == BgSamples(src, boundingRect(c))
       IN /\ keptRegions = << [contour |-> c, box |-> boundingRect(c)] >>
          /\ fgThresh = f
          /\ bgs = v
          /\ bgThresh = BgThresh(v)
          /\ fg = Polarity(f, BgThresh(v))[1]
          /\ bg = Polarity(f, BgThresh(v))[2]
          /\ x = b.x
          /\ y = b.y
  /\ contours = <<>>
  /\ hierarchy = <<>>
  /\ i = 0
  /\ parent = -1
  /\ numChildren = 0
  /\ keptIdx = <<0>>
  /\ counts = <<>>
  /\ filter = NewMask(edgesSize, White)
  /\ r = 0
  /\ oob = FALSE
  /\ dst = NoMask
  /\ pc = "fill"
  /\ arg = <<>>
  /\ ret = FALSE

NextFill ==
  \/ FillPixel
  \/ NextColumn
  \/ RegionDone
  \/ Finish

SpecFill == InitFill /\ [][NextFill]_vars

===========================================================================
